---- MODULE Spec2Model ----
(***************************************************************************)
(* haproxy/line.py: one raw HAProxy log line is turned into a Line object. *)
(* A line is a TLA+ string; the two compiled patterns of the module are    *)
(* written down as pattern trees and matched by a backtracking matcher     *)
(* with the priorities of Python's re module (greedy repetition, leftmost  *)
(* alternative first, optional group tried before it is skipped).          *)
(***************************************************************************)
EXTENDS Integers, Sequences, FiniteSets, TLC

(***************************************************************************)
(* Python values.  None, str and int are kept apart so that a field that   *)
(* holds the text '5' differs from one that holds the number 5.            *)
(***************************************************************************)
None == <<"None">>

PyStr(s) == <<"str", s>>

PyInt(n) == <<"int", n>>

IsStr(v) == v[1] = "str"

IsInt(v) == v[1] = "int"

CharAt(s, i) == SubSeq(s, i, i)

(***************************************************************************)
(* Character classes of the re module, restricted to ASCII.                *)
(***************************************************************************)
Digit == {"0", "1", "2", "3", "4", "5", "6", "7", "8", "9"}

Lower == {"a", "b", "c", "d", "e", "f", "g", "h", "i", "j", "k", "l", "m",
          "n", "o", "p", "q", "r", "s", "t", "u", "v", "w", "x", "y", "z"}

Upper == {"A", "B", "C", "D", "E", "F", "G", "H", "I", "J", "K", "L", "M",
          "N", "O", "P", "Q", "R", "S", "T", "U", "V", "W", "X", "Y", "Z"}

\* \s
Space == {" ", "\t", "\n", "\r", "\f"}

\* \w
Word == Digit \cup Lower \cup Upper \cup {"_"}

(***************************************************************************)
(* Pattern trees.                                                          *)
(*   In(S)        one character of S            [...] , \d , \s , a literal *)
(*   NotIn(S)     one character not in S        [^...] , .                  *)
(*   Cat(<<..>>)  the items one after the other                             *)
(*   Alt(<<..>>)  the first alternative that leads to a match   a|b        *)
(*   Opt(p)       p, or else nothing                            p?         *)
(*   Rep(p, n)    p at least n times, as often as possible      p* , p+    *)
(*   Upto(p, n)   p at most n times, as often as possible       p{0,n}     *)
(*   Grp(g, p)    p, remembered as group g                      (?P<g>p)   *)
(*   Bos, Eos     start and end of the string                   \A , \Z    *)
(***************************************************************************)
In(S) == <<"in", S>>

NotIn(S) == <<"notin", S>>

Lit(c) == In({c})

\* . matches any character except a newline
Dot == NotIn({"\n"})

Cat(items) == <<"cat", items>>

Alt(items) == <<"alt", items>>

Opt(p) == <<"opt", p>>

Rep(p, n) == <<"rep", p, n>>

Upto(p, n) == <<"upto", p, n>>

Grp(g, p) == <<"grp", g, p>>

Bos == <<"bos">>

Eos == <<"eos">>

Star(p) == Rep(p, 0)

Plus(p) == Rep(p, 1)

NoMatch == [ok |-> FALSE]

Accepts(p, c) == IF p[1] = "in" THEN c \in p[2] ELSE c \notin p[2]

\* The text to match, with its characters by position, the characters that occur and
\* its length.
Subject(text) ==
    [text |-> text,
     at |-> [i \in 1..Len(text) |-> CharAt(text, i)],
     chars |-> {CharAt(text, i) : i \in 1..Len(text)},
     len |-> Len(text)]

\* The number of characters from pos on that the one-character pattern p accepts, at most max.
RunLen(p, s, pos, max) ==
    LET last == IF pos + max - 1 < s.len THEN pos + max - 1 ELSE s.len
        stop == CHOOSE i \in pos..(last + 1) :
                    /\ i = last + 1 \/ ~Accepts(p, s.at[i])
                    /\ \A j \in pos..(i - 1) : Accepts(p, s.at[j])
    IN  stop - pos

(***************************************************************************)
(* A way of matching is <<pos, key, caps, open>>: the next position to     *)
(* read, the choices taken so far, the groups closed so far and the starts *)
(* of the groups still open.  Each choice adds its rank to the key: 0 for  *)
(* what backtracking tries first, 1 for what it tries next, and so on.     *)
(* The match that backtracking returns is the complete way whose key comes *)
(* first in dictionary order.                                              *)
(***************************************************************************)
Way(pos, key, caps, open) == <<pos, key, caps, open>>

Ranked(w, rank) == Way(w[1], Append(w[2], rank), w[3], w[4])

Before(k1, k2) ==
    \E i \in 1..(IF Len(k1) < Len(k2) THEN Len(k1) ELSE Len(k2)) :
        /\ k1[i] < k2[i]
        /\ \A j \in 1..(i - 1) : k1[j] = k2[j]

(***************************************************************************)
(* Ahead(p) is a one-character pattern that the first character of every   *)
(* match of p satisfies, or Anything when p can match the empty string.    *)
(* A repetition followed by p only needs to stop where p can start: the    *)
(* other stops cannot lead to a match, and leaving them out changes no     *)
(* result.                                                                 *)
(***************************************************************************)
Anything == <<"anything">>

Nothing == In({})

Either(a, b) ==
    CASE a = Anything \/ b = Anything -> Anything
      [] a[1] = "in" /\ b[1] = "in" -> In(a[2] \cup b[2])
      [] a[1] = "in" /\ b[1] = "notin" -> NotIn(b[2] \ a[2])
      [] a[1] = "notin" /\ b[1] = "in" -> NotIn(a[2] \ b[2])
      [] a[1] = "notin" /\ b[1] = "notin" -> NotIn(a[2] \cap b[2])

RECURSIVE Nullable(_)
RECURSIVE NullableAll(_, _)
RECURSIVE NullableSome(_, _)
Nullable(p) ==
    LET t == p[1]
    IN  CASE t \in {"in", "notin"} -> FALSE
          [] t = "cat" -> NullableAll(p[2], 1)
          [] t = "alt" -> NullableSome(p[2], 1)
          [] t = "rep" -> p[3] = 0 \/ Nullable(p[2])
          [] t = "grp" -> Nullable(p[3])
          [] OTHER -> TRUE

NullableAll(items, i) == i > Len(items) \/ (Nullable(items[i]) /\ NullableAll(items, i + 1))

NullableSome(items, i) == i <= Len(items) /\ (Nullable(items[i]) \/ NullableSome(items, i + 1))

\* the first character of a match of p that is not empty
RECURSIVE First(_)
RECURSIVE FirstCat(_, _)
RECURSIVE FirstAlt(_, _)
First(p) ==
    LET t == p[1]
    IN  CASE t \in {"in", "notin"} -> p
          [] t = "cat" -> FirstCat(p[2], 1)
          [] t = "alt" -> FirstAlt(p[2], 1)
          [] t \in {"opt", "rep", "upto"} -> First(p[2])
          [] t = "grp" -> First(p[3])
          [] OTHER -> Nothing

FirstCat(items, i) ==
    IF i > Len(items) THEN Nothing
    ELSE IF items[i][1] \in {"bos", "eos"} THEN Anything
    ELSE IF Nullable(items[i]) THEN Either(First(items[i]), FirstCat(items, i + 1))
    ELSE First(items[i])

FirstAlt(items, i) ==
    IF i > Len(items) THEN Nothing ELSE Either(First(items[i]), FirstAlt(items, i + 1))

Ahead(p) == IF Nullable(p) THEN Anything ELSE First(p)

CanStart(next, s, pos) ==
    next = Anything \/ (pos <= s.len /\ Accepts(next, s.at[pos]))

\* The ways of matching, from each of ways, the one-character pattern p between min and
\* max times, where what follows starts with next.
\* When p accepts every character of the text, a run can stop anywhere, so the stops do
\* not depend on where the run began.  Of the ways that stop at the same place, only the
\* one whose key comes first can become the returned match, what follows being the same
\* for all of them: it is the latest of the leading ways, a way leading when its key
\* comes before that of every way that is no further in the text.
RunChars(p, min, max, s, ways, next) ==
    IF max >= s.len /\ \A c \in s.chars : Accepts(p, c)
    THEN LET starts == IF next = Anything THEN 1..(s.len + 1)
                       ELSE {i \in 1..s.len : Accepts(next, s.at[i])}
             lead == {w \in ways : \A v \in ways : v[1] > w[1] \/ v = w \/ Before(w[2], v[2])}
         IN  {LET w == CHOOSE w \in lead :
                           /\ w[1] + min <= i
                           /\ \A v \in lead : v[1] + min <= i => v[1] <= w[1]
              IN  Way(i, Append(w[2], s.len + 1 - i), w[3], w[4]) :
                  i \in {j \in starts : \E w \in lead : w[1] + min <= j}}
    ELSE UNION {LET most == RunLen(p, s, w[1], max)
                IN  {Way(i, Append(w[2], w[1] + most - i), w[3], w[4]) :
                         i \in {j \in (w[1] + min)..(w[1] + most) : CanStart(next, s, j)}} :
                w \in ways}

\* Run(p, s, ways, next): the ways of matching p from each of ways, where
\* what follows p starts with next.
RECURSIVE Run(_, _, _, _)
RECURSIVE RunCat(_, _, _, _, _)
RECURSIVE RunAlt(_, _, _, _, _)
RECURSIVE RunRep(_, _, _, _)

Run(p, s, ways, next) ==
    LET t == p[1]
    IN  CASE t \in {"in", "notin"} ->
               {Way(w[1] + 1, w[2], w[3], w[4]) :
                    w \in {v \in ways : v[1] <= s.len /\ Accepts(p, s.at[v[1]])}}
          [] t = "cat" -> RunCat(p[2], 1, s, ways, next)
          [] t = "alt" -> RunAlt(p[2], 1, s, ways, next)
          [] t = "opt" ->
               Run(p[2], s, {Ranked(w, 0) : w \in ways}, next)
                   \cup {Ranked(w, 1) : w \in {v \in ways : CanStart(next, s, v[1])}}
          [] t = "rep" ->
               IF p[2][1] \in {"in", "notin"}
               THEN RunChars(p[2], p[3], s.len, s, ways, next)
               ELSE RunRep(p[2], p[3], s, ways)
          [] t = "upto" -> RunChars(p[2], 0, p[3], s, ways, next)
          [] t = "grp" ->
               {Way(w[1], w[2],
                    [w[3] EXCEPT ![p[2]] = PyStr(SubSeq(s.text, w[4][1], w[1] - 1))],
                    Tail(w[4])) :
                    w \in Run(p[3], s, {Way(v[1], v[2], v[3], <<v[1]>> \o v[4]) : v \in ways},
                              next)}
          [] t = "bos" -> {w \in ways : w[1] = 1}
          [] t = "eos" -> {w \in ways : w[1] = s.len + 1}

\* what follows item i of a sequence that is itself followed by next
RECURSIVE AheadFrom(_, _, _)
AheadFrom(items, i, next) ==
    IF i > Len(items) THEN next
    ELSE IF items[i][1] \in {"bos", "eos"} THEN Anything
    ELSE IF Nullable(items[i])
    THEN (IF First(items[i]) = Nothing THEN AheadFrom(items, i + 1, next)
          ELSE Either(First(items[i]), AheadFrom(items, i + 1, next)))
    ELSE First(items[i])

RunCat(items, i, s, ways, next) ==
    IF i > Len(items) \/ ways = {} THEN ways
    ELSE RunCat(items, i + 1, s, Run(items[i], s, ways, AheadFrom(items, i + 1, next)), next)

RunAlt(items, i, s, ways, next) ==
    IF i > Len(items) THEN {}
    ELSE Run(items[i], s, {Ranked(w, i) : w \in ways}, next)
             \cup RunAlt(items, i + 1, s, ways, next)

\* p at least min times: once more first, and only then no more
RunRep(p, min, s, ways) ==
    LET once == Run(p, s, {Ranked(w, 0) : w \in ways}, Anything)
        more == IF once = {} THEN {} ELSE RunRep(p, IF min > 0 THEN min - 1 ELSE 0, s, once)
    IN  more \cup (IF min = 0 THEN {Ranked(w, 1) : w \in ways} ELSE {})

\* the match object of a way
Match(w) == [ok |-> TRUE, caps |-> w[3], end |-> w[1]]

\* of all the ways found, the one that backtracking reaches first
Earliest(found) ==
    IF found = {} THEN NoMatch
    ELSE Match(CHOOSE w \in found : \A v \in found : v = w \/ Before(w[2], v[2]))

\* pattern.match(s): the pattern is tried at the start of s only; every group starts unset.
ReMatch(pattern, groups, text) ==
    Earliest(Run(pattern, Subject(text), {Way(1, <<>>, [g \in groups |-> None], <<>>)},
                 Anything))

(***************************************************************************)
(* HAPROXY_LINE_REGEX, piece by piece as in the source.                    *)
(***************************************************************************)
Ws == Plus(In(Space))

Digits == Plus(In(Digit))

\* -?\d+
Minus == Cat(<<Opt(Lit("-")), Digits>>)

\* \d+ where \+?\d+ is meant: the sign is not accepted
WithoutPlus == Cat(<<Digits>>)

\* \+?\d+
Positive == Cat(<<Opt(Lit("+")), Digits>>)

\* (\A.*\]:)? : the blanks after the prefix are left to the client address
PrefixWithoutBlanks == Opt(Cat(<<Bos, Star(Dot), Lit("]"), Lit(":")>>))

\* (\A.*\]:\s+)?
SyslogPrefix == Opt(Cat(<<Bos, Star(Dot), Lit("]"), Lit(":"), Ws>>))

\* (?P<client_ip>[a-fA-F\d+\.:]+):(?P<client_port>\d+)\s+
ClientIpClass ==
    In({"a", "b", "c", "d", "e", "f", "A", "B", "C", "D", "E", "F"}
       \cup Digit \cup {"+", ".", ":"})

ClientAddress ==
    Cat(<<Grp("client_ip", Plus(ClientIpClass)), Lit(":"),
          Grp("client_port", Digits), Ws>>)

\* \[(?P<accept_date>.+)\]\s+
AcceptDate == Cat(<<Lit("["), Grp("accept_date", Plus(Dot)), Lit("]"), Ws>>)

HttpShape ==
    Cat(<<Grp("http_frontend_name", Star(Dot)), Ws,
          Grp("http_backend_name", Star(Dot)), Lit("/"),
          Grp("http_server_name", Star(Dot)), Ws,
          Grp("http_Tq", Minus), Lit("/"), Grp("http_Tw", Minus), Lit("/"),
          Grp("http_Tc", Minus), Lit("/"), Grp("http_Tr", Minus), Lit("/"),
          Grp("http_Ta", Positive), Ws,
          Grp("http_status_code", Minus), Ws, Grp("http_bytes_read", Positive)>>)

TcpShape ==
    Cat(<<Grp("tcp_frontend_name", Star(Dot)), Ws,
          Grp("tcp_backend_name", Star(Dot)), Lit("/"),
          Grp("tcp_server_name", Star(Dot)), Ws,
          Grp("tcp_Tw", Minus), Lit("/"), Grp("tcp_Tc", Minus), Lit("/"),
          Grp("tcp_Tt", Positive), Ws,
          Grp("tcp_bytes_read", Positive)>>)

\* .*\s+ actconn/feconn/beconn/srv_conn/retries
Counters ==
    Cat(<<Star(Dot), Ws,
          Grp("actconn", Digits), Lit("/"), Grp("feconn", Digits), Lit("/"),
          Grp("beconn", Digits), Lit("/"), Grp("srv_conn", Digits), Lit("/"),
          Grp("retries", Positive)>>)

\* (\s+(?P<srv_queue>\d+)\/(?P<backend_queue>\d+))
Queues == Cat(<<Ws, Grp("srv_queue", Digits), Lit("/"), Grp("backend_queue", Digits)>>)

\* the header groups with the one-group form tried before the two-group form
SingleGroupFirst ==
    Opt(Alt(<<Cat(<<Lit("{"), Grp("headers", Star(Dot)), Lit("}"), Ws>>),
              Cat(<<Lit("{"), Grp("captured_request_headers", Star(Dot)), Lit("}"), Ws,
                    Lit("{"), Grp("captured_response_headers", Star(Dot)), Lit("}"), Ws>>),
              Ws>>))

\* ({(?P<captured_request_headers>.*)}\s+{(?P<captured_response_headers>.*)}\s+|{(?P<headers>.*)}\s+|\s+)?
HeaderGroups ==
    Opt(Alt(<<Cat(<<Lit("{"), Grp("captured_request_headers", Star(Dot)), Lit("}"), Ws,
                    Lit("{"), Grp("captured_response_headers", Star(Dot)), Lit("}"), Ws>>),
              Cat(<<Lit("{"), Grp("headers", Star(Dot)), Lit("}"), Ws>>),
              Ws>>))

\* "(?P<http_request>[^\"]+)"?
QuotedRequest ==
    Cat(<<Lit("\""), Grp("http_request", Plus(NotIn({"\""}))), Opt(Lit("\""))>>)

\* the tail without its final ? : every line has to end with a request
TailRequired == Cat(<<Ws, HeaderGroups, QuotedRequest>>)

\* (\s+ ... )?
RequestTail == Opt(Cat(<<Ws, HeaderGroups, QuotedRequest>>))

HAPROXY_LINE_REGEX ==
    Cat(<<SyslogPrefix, ClientAddress, AcceptDate, Alt(<<HttpShape, TcpShape>>),
          Counters, Queues, RequestTail, Eos>>)

LineGroups ==
    {"client_ip", "client_port", "accept_date",
     "http_frontend_name", "http_backend_name", "http_server_name",
     "http_Tq", "http_Tw", "http_Tc", "http_Tr", "http_Ta",
     "http_status_code", "http_bytes_read",
     "tcp_frontend_name", "tcp_backend_name", "tcp_server_name",
     "tcp_Tw", "tcp_Tc", "tcp_Tt", "tcp_bytes_read",
     "actconn", "feconn", "beconn", "srv_conn", "retries",
     "srv_queue", "backend_queue",
     "captured_request_headers", "captured_response_headers", "headers",
     "http_request"}

(***************************************************************************)
(* HTTP_REQUEST_REGEX                                                       *)
(***************************************************************************)
\* the ASCII members of the path class: every printable character except
\* the blank and the double quote
\* (a backquote inside a string literal has to be followed by a quote mark)
Backquote == CharAt("`'", 1)

PathClass ==
    In(Word \cup {Backquote, "\\", "<", ">", "/", ":", ",", ";", ".", "#", "$", "!", "?",
                  "=", "&", "@", "%", "_", "+", "'", "*", "^", "~", "|", "(", ")",
                  "[", "]", "{", "}", "-"})

HTTP_REQUEST_REGEX ==
    Cat(<<Grp("method", Plus(In(Word))), Ws,
          Grp("path", Plus(Cat(<<Lit("/"), Star(PathClass)>>))),
          Opt(Cat(<<Ws, Grp("protocol",
                            Cat(<<Plus(In(Word)), Lit("/"), In(Digit), Lit("."), In(Digit)>>))>>))>>)

RequestGroups == {"method", "path", "protocol"}

(***************************************************************************)
(* int(text) of a captured number: an optional sign and decimal digits.    *)
(***************************************************************************)
DigitValue(c) == CHOOSE d \in 0..9 : CharAt("0123456789", d + 1) = c

RECURSIVE Decimal(_)
Decimal(s) ==
    IF s = "" THEN 0
    ELSE 10 * Decimal(SubSeq(s, 1, Len(s) - 1)) + DigitValue(CharAt(s, Len(s)))

\* int that reads the digits and drops the sign in front of them
IntWithoutSign(v) ==
    LET s == v[2]
    IN  IF CharAt(s, 1) \in {"-", "+"} THEN PyInt(Decimal(SubSeq(s, 2, Len(s))))
        ELSE PyInt(Decimal(s))

int(v) ==
    LET s == v[2]
    IN  IF CharAt(s, 1) = "-" THEN PyInt(0 - Decimal(SubSeq(s, 2, Len(s))))
        ELSE IF CharAt(s, 1) = "+" THEN PyInt(Decimal(SubSeq(s, 2, Len(s))))
        ELSE PyInt(Decimal(s))

(***************************************************************************)
(* datetime.strptime(text, '%d/%b/%Y:%H:%M:%S.%f'): the format becomes a   *)
(* pattern that must match the whole text without regard to case, and the *)
(* numbers it captures must name a day of the calendar.                    *)
(***************************************************************************)
NoCase(lower, upper) ==
    Cat([i \in 1..Len(lower) |-> In({CharAt(lower, i), CharAt(upper, i)})])

MonthNames == <<"jan", "feb", "mar", "apr", "may", "jun",
                "jul", "aug", "sep", "oct", "nov", "dec">>

MonthNamesUpper == <<"JAN", "FEB", "MAR", "APR", "MAY", "JUN",
                     "JUL", "AUG", "SEP", "OCT", "NOV", "DEC">>

Range(a, b) == In({CharAt("0123456789", d + 1) : d \in a..b})

AcceptDateFormat ==
    Cat(<<Grp("d", Alt(<<Cat(<<Lit("3"), Range(0, 1)>>), Cat(<<Range(1, 2), In(Digit)>>),
                         Cat(<<Lit("0"), Range(1, 9)>>), Range(1, 9),
                         Cat(<<Lit(" "), Range(1, 9)>>)>>)),
          Lit("/"),
          Grp("b", Alt([m \in 1..12 |-> NoCase(MonthNames[m], MonthNamesUpper[m])])),
          Lit("/"),
          Grp("Y", Cat(<<In(Digit), In(Digit), In(Digit), In(Digit)>>)),
          Lit(":"),
          Grp("H", Alt(<<Cat(<<Lit("2"), Range(0, 3)>>), Cat(<<Range(0, 1), In(Digit)>>),
                         In(Digit)>>)),
          Lit(":"),
          Grp("M", Alt(<<Cat(<<Range(0, 5), In(Digit)>>), In(Digit)>>)),
          Lit(":"),
          Grp("S", Alt(<<Cat(<<Lit("6"), Range(0, 1)>>), Cat(<<Range(0, 5), In(Digit)>>),
                         In(Digit)>>)),
          Lit("."),
          Grp("f", Cat(<<In(Digit), Upto(In(Digit), 5)>>))>>)

DateGroups == {"d", "b", "Y", "H", "M", "S", "f"}

datetime(Y, m, d, H, M, S, f) == <<"datetime", Y, m, d, H, M, S, f>>

IsLeap(Y) == Y % 4 = 0 /\ (Y % 100 # 0 \/ Y % 400 = 0)

DaysIn(Y, m) ==
    IF m = 2 THEN (IF IsLeap(Y) THEN 29 ELSE 28)
    ELSE IF m \in {4, 6, 9, 11} THEN 30 ELSE 31

\* the month whose name, in either case, is the text
MonthOf(text) ==
    CHOOSE m \in 1..12 :
        /\ Len(text) = Len(MonthNames[m])
        /\ \A i \in 1..Len(text) :
               CharAt(text, i) \in {CharAt(MonthNames[m], i), CharAt(MonthNamesUpper[m], i)}

\* digits of a fraction of a second, padded on the right to microseconds
RECURSIVE Micro(_)
Micro(s) == IF Len(s) >= 6 THEN Decimal(s) ELSE Micro(s \o "0")

Trim(s) == IF CharAt(s, 1) = " " THEN SubSeq(s, 2, Len(s)) ELSE s

ValueError == <<"ValueError">>

TypeError == <<"TypeError">>

\* the datetime of the numbers, or ValueError when they name no day of the calendar
Calendar(Y, m, d, H, M, S, f) ==
    IF Y < 1 \/ d > DaysIn(Y, m) \/ S > 59 THEN ValueError
    ELSE datetime(Y, m, d, H, M, S, f)

\* the datetime of the groups of a match of the format
Captured(g) ==
    Calendar(Decimal(g.Y[2]), MonthOf(g.b[2]), Decimal(Trim(g.d[2])),
             Decimal(g.H[2]), Decimal(g.M[2]), Decimal(g.S[2]), Micro(g.f[2]))

\* the format must match, and match all of the text
Whole(found, text) ==
    IF ~found.ok \/ found.end # Len(text) + 1 THEN ValueError ELSE Captured(found.caps)

\* the datetime, or ValueError
strptime(text) == Whole(ReMatch(AcceptDateFormat, DateGroups, text), text)

(***************************************************************************)
(* class Line.  An object is a record of its attributes; the attributes of *)
(* the class body start as None, is_valid exists only once __init__ has    *)
(* set it.  A method takes and returns a frame: the object, the exception  *)
(* that is propagating (None when there is none), what was printed, and    *)
(* the groups of the line match (None when the line did not match).        *)
(***************************************************************************)
HTTP == <<"LineType", "HTTP">>

TCP == <<"LineType", "TCP">>

True == <<"bool", TRUE>>

False == <<"bool", FALSE>>

NoAttribute == <<"no attribute">>

Attributes ==
    {"log_type", "client_ip", "client_port", "raw_accept_date", "accept_date",
     "request_date", "frontend_name", "backend_name", "server_name",
     "time_wait_request", "time_wait_queues", "time_connect_server",
     "time_wait_response", "total_time", "status_code", "bytes_read",
     "captured_request_cookie", "captured_response_cookie", "termination_state",
     "connections_active", "connections_frontend", "connections_backend",
     "connections_server", "retries", "queue_server", "queue_backend",
     "captured_request_headers", "captured_response_headers", "raw_http_request",
     "http_request_method", "http_request_path", "http_request_protocol", "raw_line"}

Line == [a \in Attributes \cup {"is_valid"} |-> IF a = "is_valid" THEN NoAttribute ELSE None]

Frame(self) == [self |-> self, exc |-> None, stdout |-> <<>>, matches |-> None]

Raise(fr, exc) == [fr EXCEPT !.exc = exc]

\* handle_bad_http_request without its test for '<BADREQ>': the notice is always printed
BadRequestAlwaysNoticed(fr) ==
    [fr EXCEPT !.self.http_request_method = PyStr("invalid"),
               !.self.http_request_path = PyStr("invalid"),
               !.self.http_request_protocol = PyStr("invalid"),
               !.stdout = Append(@, "Could not process HTTP request "
                                        \o fr.self.raw_http_request[2])]

handle_bad_http_request(fr) ==
    LET self == [fr.self EXCEPT !.http_request_method = PyStr("invalid"),
                                !.http_request_path = PyStr("invalid"),
                                !.http_request_protocol = PyStr("invalid")]
    IN  [fr EXCEPT !.self = self,
                   !.stdout = IF self.raw_http_request # PyStr("<BADREQ>")
                              THEN Append(@, "Could not process HTTP request "
                                                 \o self.raw_http_request[2])
                              ELSE @]

\* lines 266-271: what _parse_http_request does with the match
RequestMatched(fr, matches) ==
    IF matches.ok
    THEN [fr EXCEPT !.self.http_request_method = matches.caps.method,
                    !.self.http_request_path = matches.caps.path,
                    !.self.http_request_protocol = matches.caps.protocol]
    ELSE handle_bad_http_request(fr)

_parse_http_request(fr) ==
    RequestMatched(fr, ReMatch(HTTP_REQUEST_REGEX, RequestGroups, fr.self.raw_http_request[2]))

\* the datetime, or ValueError
_parse_accept_date(self) == strptime(self.raw_accept_date[2])

\* lines 215-216
RequestIfAny(fr) ==
    IF fr.self.raw_http_request # None THEN _parse_http_request(fr) ELSE fr

_parse_http_fields(fr, group) ==
    RequestIfAny(
        [fr EXCEPT
            !.self.frontend_name = group.http_frontend_name,
            !.self.backend_name = group.http_backend_name,
            !.self.server_name = group.http_server_name,
            !.self.time_wait_request = int(group.http_Tq),
            !.self.time_wait_queues = int(group.http_Tw),
            !.self.time_connect_server = int(group.http_Tc),
            !.self.time_wait_response = int(group.http_Tr),
            !.self.total_time = group.http_Ta,
            !.self.status_code = group.http_status_code,
            !.self.bytes_read = group.http_bytes_read,
            !.self.captured_request_headers =
                IF group.headers # None THEN group.headers
                ELSE group.captured_request_headers,
            !.self.captured_response_headers = group.captured_response_headers,
            !.self.raw_http_request = group.http_request])

\* _parse_tcp_fields that also keeps the quoted request of the line
TcpFieldsWithRequest(fr, group) ==
    [fr EXCEPT !.self.frontend_name = group.tcp_frontend_name,
               !.self.backend_name = group.tcp_backend_name,
               !.self.server_name = group.tcp_server_name,
               !.self.time_wait_queues = int(group.tcp_Tw),
               !.self.time_connect_server = int(group.tcp_Tc),
               !.self.total_time = int(group.tcp_Tt),
               !.self.bytes_read = group.tcp_bytes_read,
               !.self.raw_http_request = group.http_request]

_parse_tcp_fields(fr, group) ==
    [fr EXCEPT !.self.frontend_name = group.tcp_frontend_name,
               !.self.backend_name = group.tcp_backend_name,
               !.self.server_name = group.tcp_server_name,
               !.self.time_wait_queues = int(group.tcp_Tw),
               !.self.time_connect_server = int(group.tcp_Tc),
               !.self.total_time = int(group.tcp_Tt),
               !.self.bytes_read = group.tcp_bytes_read]

_parse_protocol_specific_fields(fr, group) ==
    LET shaped == IF group.http_frontend_name # None
                  THEN _parse_http_fields([fr EXCEPT !.self.log_type = HTTP], group)
                  ELSE _parse_tcp_fields([fr EXCEPT !.self.log_type = TCP], group)
    IN  [shaped EXCEPT !.self.connections_active = group.actconn,
                       !.self.connections_frontend = group.feconn,
                       !.self.connections_backend = group.beconn,
                       !.self.connections_server = group.srv_conn,
                       !.self.retries = group.retries,
                       !.self.queue_server = int(group.srv_queue),
                       !.self.queue_backend = int(group.backend_queue)]

\* _parse_line gives [frame, return value]; the return value means nothing when an
\* exception propagates.
\* lines 255-259: the date is kept, or the ValueError of strptime propagates
DateParsed(fr, group, date) ==
    IF date = ValueError THEN [frame |-> Raise(fr, ValueError), return |-> None]
    ELSE [frame |-> _parse_protocol_specific_fields(
                        [fr EXCEPT !.self.accept_date = date, !.self.request_date = date],
                        group),
          return |-> True]

\* lines 251-254
ClientParsed(fr, group) ==
    [fr EXCEPT !.matches = group,
               !.self.client_ip = group.client_ip,
               !.self.client_port = int(group.client_port),
               !.self.raw_accept_date = group.accept_date]

\* lines 248-259: what _parse_line does with the match
LineMatched(fr, matches) ==
    IF ~matches.ok THEN [frame |-> fr, return |-> False]
    ELSE DateParsed(ClientParsed(fr, matches.caps), matches.caps,
                    _parse_accept_date(ClientParsed(fr, matches.caps).self))

_parse_line(fr, line) == LineMatched(fr, ReMatch(HAPROXY_LINE_REGEX, LineGroups, line))

\* line 163: is_valid is assigned unless an exception propagates
Returned(parsed) ==
    IF parsed.frame.exc # None THEN parsed.frame
    ELSE [parsed.frame EXCEPT !.self.is_valid = parsed.return]

\* __init__ without its first statement: raw_line is never set.  The properties of
\* raw_line must fail for it.
InitWithoutRawLine(line) == Returned(_parse_line(Frame(Line), line))

\* Line(line)
__init__(line) == Returned(_parse_line(Frame([Line EXCEPT !.raw_line = PyStr(line)]), line))

\* needle in haystack, for two texts
Contains(haystack, needle) ==
    \E i \in 1..(Len(haystack) - Len(needle) + 1) :
        SubSeq(haystack, i, i + Len(needle) - 1) = needle

\* text.split(sep)[0] for a one-character sep
FirstField(text, sep) ==
    LET cut == CHOOSE i \in 1..(Len(text) + 1) :
                   /\ i = Len(text) + 1 \/ CharAt(text, i) = sep
                   /\ \A j \in 1..(i - 1) : CharAt(text, j) # sep
    IN  SubSeq(text, 1, cut - 1)

\* a < b for two datetimes
Earlier(a, b) == Before(SubSeq(a, 2, 8), SubSeq(b, 2, 8))

\* The queries: the returned value, or the exception raised.
is_https(self) ==
    IF self.http_request_path = None THEN TypeError
    ELSE IF Contains(self.http_request_path[2], ":443") THEN True ELSE False

is_within_time_frame(self, start, end) ==
    IF start = None THEN True
    ELSE IF self.accept_date = None THEN TypeError
    ELSE IF Earlier(self.accept_date, start) THEN False
    ELSE IF end = None THEN True
    ELSE IF Earlier(end, self.accept_date) THEN False
    ELSE True

\* ip without its test 'if ip:': the first field is returned even when it is empty
IpOfHeadersAlone(self) ==
    IF self.captured_request_headers # None
    THEN PyStr(FirstField(self.captured_request_headers[2], "|"))
    ELSE self.client_ip

ip(self) ==
    LET first == IF self.captured_request_headers # None
                 THEN FirstField(self.captured_request_headers[2], "|")
                 ELSE ""
    IN  IF self.captured_request_headers # None /\ first # "" THEN PyStr(first)
        ELSE self.client_ip

(***************************************************************************)
(* The lines.  As in tests/conftest.py a line is formatted from a record   *)
(* of field values, DEFAULT_DATA with some fields replaced.  A number is   *)
(* written with its sign, if any, and its decimal digits.                  *)
(***************************************************************************)
Num(sign, n) == <<"num", sign, n>>

Raw(text) == <<"raw", text>>

RECURSIVE Str(_)
Str(n) ==
    IF n < 10 THEN CharAt("0123456789", n + 1)
    ELSE Str(n \div 10) \o CharAt("0123456789", (n % 10) + 1)

Text(v) == IF v[1] = "num" THEN v[2] \o Str(v[3]) ELSE v[2]

\* the number a written value stands for
Signed(v) == IF v[2] = "-" THEN 0 - v[3] ELSE v[3]

DEFAULT_DATA ==
    [factory |-> "http",
     wrapped |-> TRUE,
     syslog_date |-> "Dec  9 13:01:26",
     process_name_and_pid |-> "localhost haproxy[28029]:",
     client_ip |-> "127.0.0.1",
     client_port |-> Num("", 2345),
     accept_date |-> "09/Dec/2013:12:59:46.633",
     frontend_name |-> "loadbalancer",
     backend_name |-> "default",
     server_name |-> "instance8",
     Tq |-> Num("", 0),
     Tw |-> Num("", 51536),
     Tc |-> Num("", 1),
     Tr |-> Num("", 48082),
     Ta |-> Num("", 99627),
     Tt |-> Num("", 302045),
     http_status_code |-> Num("", 200),
     http_bytes_read |-> Num("", 83285),
     tcp_bytes_read |-> Num("", 18923),
     actconn |-> Num("", 87),
     feconn |-> Num("", 89),
     beconn |-> Num("", 98),
     srv_conn |-> Num("", 1),
     retries |-> Num("", 20),
     srv_queue |-> Num("", 2),
     backend_queue |-> Num("", 67),
     headers |-> <<"77.24.148.74">>,
     http_request |-> "GET /path/to/image HTTP/1.1",
     quotes |-> "both",
     trailer |-> ""]

\* the captured headers of a line: each group in braces, after a blank
RECURSIVE Braces(_)
Braces(groups) ==
    IF groups = <<>> THEN "" ELSE " {" \o Head(groups) \o "}" \o Braces(Tail(groups))

\* LinesGenerator.__call__ with the line formats of the factories
Format(d) ==
    (IF d.wrapped THEN d.syslog_date \o " " \o d.process_name_and_pid \o " " ELSE "")
    \o d.client_ip \o ":" \o Text(d.client_port)
    \o " [" \o d.accept_date \o "] "
    \o d.frontend_name \o " " \o d.backend_name \o "/" \o d.server_name \o " "
    \o (IF d.factory = "http"
        THEN Text(d.Tq) \o "/" \o Text(d.Tw) \o "/" \o Text(d.Tc) \o "/" \o Text(d.Tr)
                 \o "/" \o Text(d.Ta) \o " "
                 \o Text(d.http_status_code) \o " " \o Text(d.http_bytes_read) \o " - - ---- "
        ELSE Text(d.Tw) \o "/" \o Text(d.Tc) \o "/" \o Text(d.Tt) \o " "
                 \o Text(d.tcp_bytes_read) \o " -- ")
    \o Text(d.actconn) \o "/" \o Text(d.feconn) \o "/" \o Text(d.beconn) \o "/"
    \o Text(d.srv_conn) \o "/" \o Text(d.retries) \o " "
    \o Text(d.srv_queue) \o "/" \o Text(d.backend_queue)
    \o Braces(d.headers)
    \o (CASE d.quotes = "both" -> " \"" \o d.http_request \o "\""
          [] d.quotes = "open" -> " \"" \o d.http_request
          [] d.quotes = "none" -> "")
    \o d.trailer

\* The keyword arguments the lines are made with.
Overrides ==
    {[factory |-> "tcp", headers |-> <<>>, quotes |-> "none"],
     [factory |-> "tcp"],
     [wrapped |-> FALSE],
     [syslog_date |-> "2017-07-06T14:29:39+02:00"],
     [process_name_and_pid |-> "dvd-ctrl1 haproxy[403100]:"],
     [client_ip |-> "fe80::9379:c29e::"],
     [accept_date |-> "32/Dec/2013:12:59:46.633"],
     [accept_date |-> "yesterday"],
     [Tq |-> Num("-", 23), Tw |-> Num("-", 33), Tc |-> Num("-", 3), Tr |-> Num("-", 4)],
     [Ta |-> Num("+", 5), Tt |-> Num("+", 5)],
     [Ta |-> Num("-", 5), Tt |-> Num("-", 5)],
     [http_status_code |-> Num("-", 301)],
     [http_bytes_read |-> Num("+", 543), tcp_bytes_read |-> Num("+", 543)],
     [http_bytes_read |-> Raw("wroooong"), tcp_bytes_read |-> Raw("wroooong")],
     [retries |-> Num("+", 14)],
     [headers |-> <<>>],
     [headers |-> <<"1.2.3.4|more", "something_else">>],
     [headers |-> <<"">>],
     [headers |-> <<"|1.2.3.4">>],
     [http_request |-> "GET /"],
     [http_request |-> "GET /domain:443/to/image HTTP/1.1"],
     [http_request |-> "something"],
     [http_request |-> "<BADREQ>"],
     [http_request |-> ""],
     [quotes |-> "open"],
     [quotes |-> "none"],
     [trailer |-> " "],
     [headers |-> <<>>, quotes |-> "none", trailer |-> " "],
     [frontend_name |-> "a b/c 1/2/3 4 lb"]}

\* at most this many keyword arguments in one call of a factory
MaxOverrides == 2

RECURSIVE Made(_)
Made(n) ==
    IF n = 0 THEN {DEFAULT_DATA}
    ELSE Made(n - 1) \cup {[f \in DOMAIN d |-> IF f \in DOMAIN o THEN o[f] ELSE d[f]] :
                               o \in Overrides, d \in Made(n - 1)}

Data == Made(MaxOverrides)

\* The bounds of a time frame: none, or the default accept date moved by whole days.
MaxShift == 1

Bounds == {None} \cup {datetime(2013, 12, 9 + k, 12, 59, 46, 633000) : k \in (0 - MaxShift)..MaxShift}

(***************************************************************************)
(* The state: the field values a line is made of and the line, where the   *)
(* program is, the object and what constructing it left behind, and the    *)
(* last query with what it gave.                                           *)
(***************************************************************************)
VARIABLES data, line, pc, self, matches, exc, stdout, call, ret

vars == <<data, line, pc, self, matches, exc, stdout, call, ret>>

Init ==
    /\ data \in Data
    /\ line = Format(data)
    /\ pc = "new"
    /\ self = Line
    /\ matches = None
    /\ exc = None
    /\ stdout = <<>>
    /\ call = <<>>
    /\ ret = None

\* Line(line)
Construct ==
    /\ pc = "new"
    /\ \E fr \in {__init__(line)} :
           /\ self' = fr.self
           /\ matches' = fr.matches
           /\ exc' = fr.exc
           /\ stdout' = fr.stdout
           /\ pc' = IF fr.exc = None THEN "constructed" ELSE "raised"
    /\ UNCHANGED <<data, line, call, ret>>

IsHttps ==
    /\ pc = "constructed"
    /\ call' = <<"is_https">>
    /\ ret' = is_https(self)
    /\ UNCHANGED <<data, line, pc, self, matches, exc, stdout>>

Ip ==
    /\ pc = "constructed"
    /\ call' = <<"ip">>
    /\ ret' = ip(self)
    /\ UNCHANGED <<data, line, pc, self, matches, exc, stdout>>

IsWithinTimeFrame ==
    /\ pc = "constructed"
    /\ \E start \in Bounds, end \in Bounds :
           /\ call' = <<"is_within_time_frame", start, end>>
           /\ ret' = is_within_time_frame(self, start, end)
    /\ UNCHANGED <<data, line, pc, self, matches, exc, stdout>>

Next == Construct \/ IsHttps \/ Ip \/ IsWithinTimeFrame

Spec == Init /\ [][Next]_vars

(***************************************************************************)
(* What a line was made of, for saying what its object must hold.          *)
(***************************************************************************)
Unsigned(v) == v[1] = "num" /\ v[2] = ""

MayBeMinus(v) == v[1] = "num" /\ v[2] \in {"", "-"}

MayBePlus(v) == v[1] = "num" /\ v[2] \in {"", "+"}

\* the accept date of DEFAULT_DATA as a datetime
DefaultAcceptDate == datetime(2013, 12, 9, 12, 59, 46, 633000)

\* the part of a line that both shapes share, up to the queues
WellFormedCommon(d) ==
    /\ d.accept_date = DEFAULT_DATA.accept_date
    /\ Unsigned(d.client_port)
    /\ Unsigned(d.actconn) /\ Unsigned(d.feconn) /\ Unsigned(d.beconn) /\ Unsigned(d.srv_conn)
    /\ MayBePlus(d.retries)
    /\ Unsigned(d.srv_queue) /\ Unsigned(d.backend_queue)

WellFormedHttp(d) ==
    /\ d.factory = "http"
    /\ WellFormedCommon(d)
    /\ MayBeMinus(d.Tq) /\ MayBeMinus(d.Tw) /\ MayBeMinus(d.Tc) /\ MayBeMinus(d.Tr)
    /\ MayBePlus(d.Ta)
    /\ MayBeMinus(d.http_status_code)
    /\ MayBePlus(d.http_bytes_read)

WellFormedTcp(d) ==
    /\ d.factory = "tcp"
    /\ WellFormedCommon(d)
    /\ MayBeMinus(d.Tw) /\ MayBeMinus(d.Tc)
    /\ MayBePlus(d.Tt)
    /\ MayBePlus(d.tcp_bytes_read)

WellFormed(d) == WellFormedHttp(d) \/ WellFormedTcp(d)

\* the line ends with the closing quote of a request
QuotedTail(d) == d.quotes = "both" /\ d.http_request # "" /\ d.trailer = ""

\* the line ends with the queues
NoTail(d) == d.headers = <<>> /\ d.quotes = "none" /\ d.trailer = ""

\* the line ends inside the request, or right after the opening quote
OpenTail(d) == d.quotes = "open" /\ d.trailer = ""

\* An attribute holds a written value: as a number when it is an int, to the letter
\* when it is a str.
Same(attribute, v) ==
    IF IsInt(attribute) THEN attribute[2] = Signed(v)
    ELSE IsStr(attribute) /\ attribute[2] = Text(v)

Constructed == pc = "constructed"

Valid == Constructed /\ self.is_valid = True

Asked(query) == Constructed /\ call # <<>> /\ call[1] = query

(***************************************************************************)
(* C1.  On every valid record, is_within_time_frame(start, end) is true    *)
(* exactly when start is unset or not later than accept_date, and end is   *)
(* unset or not earlier than accept_date; so an unset start with an end    *)
(* before accept_date gives false.                                         *)
(***************************************************************************)
TimeFrameIsTwoSided ==
    (Valid /\ Asked("is_within_time_frame")) =>
        ret = IF /\ call[2] = None \/ ~Earlier(self.accept_date, call[2])
                 /\ call[3] = None \/ ~Earlier(call[3], self.accept_date)
              THEN True ELSE False

(***************************************************************************)
(* C2.  A line that the line pattern does not match is constructed without *)
(* an exception, with is_valid false, raw_line the line, and every other   *)
(* attribute as the class leaves it: None.                                 *)
(***************************************************************************)
UnmatchedLineLeavesDefaults ==
    (pc # "new" /\ matches = None) =>
        /\ pc = "constructed"
        /\ exc = None
        /\ self = [a \in DOMAIN Line |->
                       CASE a = "is_valid" -> False
                         [] a = "raw_line" -> PyStr(line)
                         [] OTHER -> None]

UnmatchedLineSeen ==
    /\ pc = "constructed"
    /\ matches = None
    /\ self.is_valid = False
    /\ self.raw_line = PyStr(line)
    /\ WellFormedCommon(data)

(***************************************************************************)
(* C3.  A well-formed line of the HTTP shape, ending with its quoted       *)
(* request, gives a valid record of kind HTTP in which every attribute     *)
(* holds the value written at its place in the line: address, accept date, *)
(* the three names, the five timers, status, bytes, counters, queues, the  *)
(* header groups and the text between the quotes.                          *)
(***************************************************************************)
HeaderGroup(d, i) == IF i <= Len(d.headers) THEN PyStr(d.headers[i]) ELSE None

HttpLineGivesItsFields ==
    (pc # "new" /\ WellFormedHttp(data) /\ QuotedTail(data)) =>
        /\ Valid
        /\ exc = None
        /\ self.log_type = HTTP
        /\ self.client_ip = PyStr(data.client_ip)
        /\ Same(self.client_port, data.client_port)
        /\ self.raw_accept_date = PyStr(data.accept_date)
        /\ self.accept_date = DefaultAcceptDate
        /\ self.request_date = DefaultAcceptDate
        /\ self.frontend_name = PyStr(data.frontend_name)
        /\ self.backend_name = PyStr(data.backend_name)
        /\ self.server_name = PyStr(data.server_name)
        /\ Same(self.time_wait_request, data.Tq)
        /\ Same(self.time_wait_queues, data.Tw)
        /\ Same(self.time_connect_server, data.Tc)
        /\ Same(self.time_wait_response, data.Tr)
        /\ Same(self.total_time, data.Ta)
        /\ Same(self.status_code, data.http_status_code)
        /\ Same(self.bytes_read, data.http_bytes_read)
        /\ Same(self.connections_active, data.actconn)
        /\ Same(self.connections_frontend, data.feconn)
        /\ Same(self.connections_backend, data.beconn)
        /\ Same(self.connections_server, data.srv_conn)
        /\ Same(self.retries, data.retries)
        /\ Same(self.queue_server, data.srv_queue)
        /\ Same(self.queue_backend, data.backend_queue)
        /\ self.captured_request_headers = HeaderGroup(data, 1)
        /\ self.captured_response_headers = HeaderGroup(data, 2)
        /\ self.raw_http_request = PyStr(data.http_request)
        /\ self.raw_line = PyStr(line)

HttpLineWithSignsAndHeadersSeen ==
    /\ Valid
    /\ call = <<>>
    /\ WellFormedHttp(data) /\ QuotedTail(data)
    /\ Len(data.headers) = 2
    /\ data.Tq[2] = "-"
    /\ self.log_type = HTTP
    /\ self.time_wait_request = PyInt(Signed(data.Tq))
    /\ self.captured_response_headers = PyStr(data.headers[2])

(***************************************************************************)
(* C4.  A valid record has a kind, and exactly the attributes of its kind: *)
(* on a TCP record time_wait_request, time_wait_response, status_code, the *)
(* captured headers, raw_http_request and the three http_request_*         *)
(* attributes are None, also when the line carries brace groups or a       *)
(* quoted request; on an HTTP record the five timers, status_code and      *)
(* bytes_read are set.                                                     *)
(***************************************************************************)
HttpOnly ==
    {"time_wait_request", "time_wait_response", "status_code",
     "captured_request_headers", "captured_response_headers", "raw_http_request",
     "http_request_method", "http_request_path", "http_request_protocol"}

HttpAlways ==
    {"time_wait_request", "time_wait_queues", "time_connect_server",
     "time_wait_response", "total_time", "status_code", "bytes_read"}

OneFieldGroupPerKind ==
    Valid =>
        /\ self.log_type \in {HTTP, TCP}
        /\ self.log_type = TCP => \A a \in HttpOnly : self[a] = None
        /\ self.log_type = HTTP => \A a \in HttpAlways : self[a] # None

TcpLineWithTailSeen ==
    /\ Valid
    /\ call = <<>>
    /\ data.factory = "tcp"
    /\ data.headers # <<>>
    /\ data.quotes = "both"
    /\ matches.http_request = PyStr(data.http_request)
    /\ self.log_type = TCP
    /\ self.raw_http_request = None

(***************************************************************************)
(* C5.  On a valid record every numeric attribute except status_code and   *)
(* bytes_read is an int, the signed decimal value of what was captured for *)
(* it: the timers and total_time of either kind, client_port, the four     *)
(* connection counters, retries and the two queues.  status_code and       *)
(* bytes_read are the captured text.                                       *)
(***************************************************************************)
\* text is a decimal numeral of n, with or without a sign
Denotes(text, n) ==
    \E sign \in {"", "+", "-"} :
        /\ text = sign \o Str(IF n < 0 THEN 0 - n ELSE n)
        /\ sign = "-" => n <= 0
        /\ n < 0 => sign = "-"

IntegerOf(attribute, group) ==
    /\ IsInt(self[attribute])
    /\ Denotes(matches[group][2], self[attribute][2])

NumericFieldsAreIntegers ==
    Valid =>
        /\ IntegerOf("client_port", "client_port")
        /\ IntegerOf("connections_active", "actconn")
        /\ IntegerOf("connections_frontend", "feconn")
        /\ IntegerOf("connections_backend", "beconn")
        /\ IntegerOf("connections_server", "srv_conn")
        /\ IntegerOf("retries", "retries")
        /\ IntegerOf("queue_server", "srv_queue")
        /\ IntegerOf("queue_backend", "backend_queue")
        /\ self.log_type = HTTP =>
               /\ IntegerOf("time_wait_request", "http_Tq")
               /\ IntegerOf("time_wait_queues", "http_Tw")
               /\ IntegerOf("time_connect_server", "http_Tc")
               /\ IntegerOf("time_wait_response", "http_Tr")
               /\ IntegerOf("total_time", "http_Ta")
               /\ self.status_code = matches.http_status_code
               /\ self.bytes_read = matches.http_bytes_read
        /\ self.log_type = TCP =>
               /\ IntegerOf("time_wait_queues", "tcp_Tw")
               /\ IntegerOf("time_connect_server", "tcp_Tc")
               /\ IntegerOf("total_time", "tcp_Tt")
               /\ self.bytes_read = matches.tcp_bytes_read

(***************************************************************************)
(* C6.  Signs.  A line whose Tq, Tw, Tc, Tr (HTTP) or Tw, Tc (TCP) are     *)
(* written with or without '-' and whose Ta, Tt, retries and bytes are     *)
(* written with or without '+' is matched, and each group is the token as  *)
(* written, sign included.  A line whose total time is written with '-' is *)
(* not matched, so total_time is never negative on a valid record.  The    *)
(* total time of a line is the one timer it has at that place: the names   *)
(* of the line hold no blanks, so that the line reads in one way only.     *)
(***************************************************************************)
\* none of the three names holds a blank
PlainNames(d) ==
    \A name \in {d.frontend_name, d.backend_name, d.server_name} :
        \A i \in 1..Len(name) : CharAt(name, i) \notin Space

\* what follows the queues is something the line pattern accepts
MatchableTail(d) ==
    QuotedTail(d) \/ NoTail(d) \/ (OpenTail(d) /\ d.http_request # "")

Token(group, v) == matches[group] = PyStr(Text(v))

Body(d) == Format([d EXCEPT !.wrapped = FALSE])

PrefixChangesNothing ==
    (pc # "new" /\ call = <<>> /\ data.wrapped) =>
        LET alone == __init__(Body(data))
        IN  /\ exc = alone.exc
            /\ stdout = alone.stdout
            /\ self = [alone.self EXCEPT !.raw_line = PyStr(line)]
            /\ alone.self.raw_line = PyStr(Body(data))
            /\ (WellFormed(data) /\ MatchableTail(data)) =>
                   Valid /\ alone.self.is_valid = True

IsoPrefixSeen ==
    /\ Valid
    /\ call = <<>>
    /\ data.wrapped
    /\ data.syslog_date = "2017-07-06T14:29:39+02:00"
    /\ data.process_name_and_pid # DEFAULT_DATA.process_name_and_pid
    /\ line # Body(data)
    /\ self.client_ip = PyStr(data.client_ip)

(***************************************************************************)
(* C8.  A line that ends with the queues, srv_queue/backend_queue being    *)
(* its last text, is valid: queue_server and queue_backend are set, and    *)
(* raw_http_request, the three http_request_* attributes and the two       *)
(* captured header attributes are None.                                    *)
(***************************************************************************)
CutAfterQueuesIsValid ==
    (pc # "new" /\ WellFormed(data) /\ NoTail(data)) =>
        /\ Valid
        /\ self.queue_server = PyInt(Signed(data.srv_queue))
        /\ self.queue_backend = PyInt(Signed(data.backend_queue))
        /\ self.raw_http_request = None
        /\ self.http_request_method = None
        /\ self.http_request_path = None
        /\ self.http_request_protocol = None
        /\ self.captured_request_headers = None
        /\ self.captured_response_headers = None

CutHttpLineSeen ==
    /\ Valid
    /\ call = <<>>
    /\ data.factory = "http"
    /\ NoTail(data)
    /\ self.log_type = HTTP
    /\ self.queue_backend = PyInt(Signed(DEFAULT_DATA.backend_queue))
    /\ self.raw_http_request = None

(***************************************************************************)
(* C9.  A truncated request is parsed.  When the closing quote is missing  *)
(* the line is valid and raw_http_request is all that follows the opening  *)
(* quote, to the end of the line.  When the request is a method and a path *)
(* without a protocol, http_request_method and http_request_path are those *)
(* two and http_request_protocol is None.                                  *)
(***************************************************************************)
TruncatedRequestIsParsed ==
    pc # "new" =>
        /\ (WellFormedHttp(data) /\ data.quotes = "open") =>
               /\ Valid
               /\ self.raw_http_request = PyStr(data.http_request \o data.trailer)
        /\ (WellFormedHttp(data) /\ data.quotes # "none" /\ data.trailer = ""
                /\ data.http_request = "GET /") =>
               /\ Valid
               /\ self.http_request_method = PyStr("GET")
               /\ self.http_request_path = PyStr("/")
               /\ self.http_request_protocol = None

(***************************************************************************)
(* C10.  The captured headers of an HTTP record.  One brace group before   *)
(* the request: captured_request_headers is its content and                *)
(* captured_response_headers is None.  Two groups: the content of the      *)
(* first and of the second.  No group: both None.                          *)
(***************************************************************************)
HeaderGroupsResolve ==
    (Valid /\ self.log_type = HTTP) =>
        /\ Len(data.headers) <= 2
        /\ self.captured_request_headers = HeaderGroup(data, 1)
        /\ self.captured_response_headers = HeaderGroup(data, 2)

TwoHeaderGroupsSeen ==
    /\ Valid
    /\ call = <<>>
    /\ self.log_type = HTTP
    /\ data.headers = <<"1.2.3.4|more", "something_else">>
    /\ self.captured_request_headers = PyStr("1.2.3.4|more")
    /\ self.captured_response_headers = PyStr("something_else")

(***************************************************************************)
(* C11.  A line whose tail after the queues is only whitespace, with no    *)
(* brace group and no quoted request (the line ends with one blank after   *)
(* srv_queue/backend_queue), is matched by the line pattern and gives a    *)
(* valid record in which the two captured header attributes,               *)
(* raw_http_request and the three http_request_* attributes are None.      *)
(***************************************************************************)
\* the line ends with blanks after the queues
BlankTail(d) == d.headers = <<>> /\ d.quotes = "none" /\ d.trailer = " "

WhitespaceTailIsValid ==
    (pc # "new" /\ WellFormed(data) /\ BlankTail(data)) =>
        /\ matches # None
        /\ Valid
        /\ self.captured_request_headers = None
        /\ self.captured_response_headers = None
        /\ self.raw_http_request = None
        /\ self.http_request_method = None
        /\ self.http_request_path = None
        /\ self.http_request_protocol = None

(***************************************************************************)
(* C12.  A request that is not a method and a path.  When the line pattern *)
(* matches an HTTP line whose captured request is not a word, blanks and a *)
(* path starting with '/', the record is valid, raw_http_request is the    *)
(* captured text, http_request_method, http_request_path and               *)
(* http_request_protocol are all 'invalid', and exactly one notice naming  *)
(* the text is printed, or none when the text is '<BADREQ>'.               *)
(***************************************************************************)
\* text starts with a method, blanks and the '/' of a path
MethodAndPath(text) ==
    \E i \in 1..Len(text), j \in 1..Len(text) :
        /\ i + 1 < j
        /\ \A k \in 1..i : CharAt(text, k) \in Word
        /\ \A k \in (i + 1)..(j - 1) : CharAt(text, k) \in Space
        /\ CharAt(text, j) = "/"

Invalid == PyStr("invalid")

BadRequestIsMarked ==
    /\ (pc # "new" /\ WellFormedHttp(data) /\ QuotedTail(data)
            /\ ~MethodAndPath(data.http_request)) =>
           /\ Valid
           /\ self.raw_http_request = PyStr(data.http_request)
    /\ (Valid /\ self.raw_http_request # None /\ ~MethodAndPath(self.raw_http_request[2])) =>
           /\ self.http_request_method = Invalid
           /\ self.http_request_path = Invalid
           /\ self.http_request_protocol = Invalid
           /\ stdout = IF self.raw_http_request = PyStr("<BADREQ>") THEN <<>>
                       ELSE <<"Could not process HTTP request " \o self.raw_http_request[2]>>

UnparseableRequestSeen ==
    /\ Valid
    /\ call = <<>>
    /\ data.http_request = "something"
    /\ self.raw_http_request = PyStr("something")
    /\ self.http_request_path = Invalid
    /\ Len(stdout) = 1

(***************************************************************************)
(* C13.  The resolved IP.  As stated: on every valid record ip is the      *)
(* first '|'-delimited field of captured_request_headers whenever          *)
(* captured_request_headers is set and not empty, and client_ip otherwise; *)
(* client_ip is all of the client address before its last ':', for dotted  *)
(* and for hexadecimal-colon addresses.                                    *)
(***************************************************************************)
\* the text before the first '|' of the headers
FirstToken(headers) ==
    LET bars == {i \in 1..Len(headers) : CharAt(headers, i) = "|"}
    IN  IF bars = {} THEN headers
        ELSE SubSeq(headers, 1, (CHOOSE i \in bars : \A j \in bars : i <= j) - 1)

ClientIpIsWholeAddress == Valid => self.client_ip = PyStr(data.client_ip)

IpIsFirstTokenOfHeaders ==
    /\ ClientIpIsWholeAddress
    /\ (Valid /\ Asked("ip")) =>
           ret = IF self.captured_request_headers \notin {None, PyStr("")}
                 THEN PyStr(FirstToken(self.captured_request_headers[2]))
                 ELSE self.client_ip

(***************************************************************************)
(* C13, as the code has it: ip is the first field of the headers when that *)
(* field is not empty, and client_ip when the headers are unset, empty, or *)
(* start with '|'.                                                         *)
(***************************************************************************)
IpIsFirstTokenUnlessEmpty ==
    /\ ClientIpIsWholeAddress
    /\ (Valid /\ Asked("ip")) =>
           ret = IF /\ self.captured_request_headers # None
                    /\ FirstToken(self.captured_request_headers[2]) # ""
                 THEN PyStr(FirstToken(self.captured_request_headers[2]))
                 ELSE self.client_ip

HeadersStartingWithBarSeen ==
    /\ Valid
    /\ Asked("ip")
    /\ data.client_ip = "fe80::9379:c29e::"
    /\ self.captured_request_headers = PyStr("|1.2.3.4")
    /\ ret = PyStr("fe80::9379:c29e::")

(***************************************************************************)
(* C14.  The two shapes exclude each other: no line is matched both by the *)
(* line pattern with the HTTP shape alone (five timers, status, bytes) and *)
(* by the line pattern with the TCP shape alone (three timers, bytes), so  *)
(* the kind found by trying the HTTP shape first is the only one possible. *)
(***************************************************************************)
\* HAPROXY_LINE_REGEX with one of its two shapes only
ReadAs(shape) ==
    Cat(<<SyslogPrefix, ClientAddress, AcceptDate, shape, Counters, Queues, RequestTail, Eos>>)

ShapesAreExclusive ==
    (pc # "new" /\ call = <<>>) =>
        ~(/\ ReMatch(ReadAs(HttpShape), LineGroups, line).ok
          /\ ReMatch(ReadAs(TcpShape), LineGroups, line).ok)

(***************************************************************************)
(* C15.  The line pattern guarantees the shape of the accept date: on      *)
(* every line it matches, the text captured between the brackets has the   *)
(* form DD/Mon/YYYY:HH:MM:SS.ffffff, so that _parse_accept_date, and with  *)
(* it the construction, raises ValueError only for a date that is not in   *)
(* the calendar (day 32), never for a text of another form.                *)
(***************************************************************************)
Letter == Lower \cup Upper

\* the places of DD/Mon/YYYY:HH:MM:SS. and one to six digits after them
HasDateShape(text) ==
    /\ Len(text) \in 22..27
    /\ \A i \in {1, 2, 8, 9, 10, 11, 13, 14, 16, 17, 19, 20} \cup (22..Len(text)) :
           CharAt(text, i) \in Digit
    /\ \A i \in {4, 5, 6} : CharAt(text, i) \in Letter
    /\ CharAt(text, 3) = "/" /\ CharAt(text, 7) = "/"
    /\ CharAt(text, 12) = ":" /\ CharAt(text, 15) = ":" /\ CharAt(text, 18) = ":"
    /\ CharAt(text, 21) = "."

AcceptDateHasItsShape ==
    (pc # "new" /\ matches # None) =>
        /\ HasDateShape(matches.accept_date[2])
        /\ exc # None => (exc = ValueError /\ HasDateShape(self.raw_accept_date[2]))

(***************************************************************************)
(* C16.  The queries are total.  On every object that the constructor      *)
(* returns (valid or not, HTTP or TCP, with or without a request, the      *)
(* request parsed or marked 'invalid') is_https, ip and                    *)
(* is_within_time_frame(start, end), for any bounds, return a value and    *)
(* raise nothing: is_https and is_within_time_frame a bool, ip a str or    *)
(* None; and is_https is False when http_request_path is None.             *)
(***************************************************************************)
QueriesAreTotal ==
    /\ Asked("is_https") =>
           /\ ret \in {True, False}
           /\ self.http_request_path = None => ret = False
    /\ Asked("is_within_time_frame") => ret \in {True, False}
    /\ Asked("ip") => (ret = None \/ IsStr(ret))

====
